---- MODULE Spec2Model ----
(***************************************************************************)
(* Model of the sqlite block store of src/src/db.rs.                       *)
(*                                                                         *)
(* The database of the connection is one record `conn` with a field per    *)
(* table of the schema INIT.  Every function of db.rs that takes a         *)
(* transaction is an operator from the transaction's view of the database  *)
(* to a result record [ok, txn, ...]; in_txn commits the view when the     *)
(* result is Ok and drops it otherwise.                                    *)
(***************************************************************************)
EXTENDS Bags, FiniteSets, Integers, Sequences, TLC

----------------------------------------------------------------------------
(* Bounds of the model *)

\* largest rowid of cids the model lets an operation allocate
MaxId == 3
\* largest temp alias id the model lets create_temp_alias allocate
MaxTempAlias == 3
\* largest min_blocks passed to incremental_gc
MaxMinBlocks == 1
\* number of calls of a history the model follows
MaxCalls == 4

\* LIMIT of the DELETE of delete_orphaned.  The source says 10000; the model
\* scales it down so that stores with more orphaned payloads than the limit
\* are reachable as well as stores with fewer.
DELETE_LIMIT == 2

\* SQL NULL, and None of an Option<&TempAlias>; rowids and alias ids are >= 1
NULL == 0

\* content identifiers, alias names and payloads the callers supply
CIDS == {"a", "b", "c"}
NAMES == {"n1", "n2"}
DATA == {<<1>>, <<2, 2>>}

\* The blocks the callers offer, as impl Block<C> gives them: cid(), data(),
\* links().  a links to b and c; b links to c, once or (with another payload)
\* twice in its list; c is a leaf or (with another payload) links back to a.
BlockA == [cid |-> "a", data |-> <<1>>, links |-> <<"b", "c">>]
BlockB == [cid |-> "b", data |-> <<2, 2>>, links |-> <<"c">>]
BlockBdup == [cid |-> "b", data |-> <<1>>, links |-> <<"c", "c">>]
BlockC == [cid |-> "c", data |-> <<1>>, links |-> <<>>]
BlockCback == [cid |-> "c", data |-> <<2, 2>>, links |-> <<"a">>]
\* c with its own cid among its links
BlockCself == [cid |-> "c", data |-> <<1>>, links |-> <<"c">>]

BLOCKS == {BlockA, BlockB, BlockBdup, BlockC, BlockCback, BlockCself}

\* the batches the callers pass to add_blocks
BATCHES ==
    { <<>>, <<BlockA, BlockB>>, <<BlockC, BlockBdup>>, <<BlockB, BlockBdup>>,
      <<BlockA, BlockB, BlockC>> }

Max(S) == IF S = {} THEN 0 ELSE CHOOSE m \in S : \A x \in S : x <= m
Min2(x, y) == IF x <= y THEN x ELSE y

RECURSIVE SetToSeq(_)
SetToSeq(S) ==
    IF S = {} THEN <<>>
    ELSE LET x == CHOOSE y \in S : TRUE IN <<x>> \o SetToSeq(S \ {x})

RECURSIVE Pow2(_)
Pow2(n) == IF n = 0 THEN 1 ELSE 2 * Pow2(n - 1)

----------------------------------------------------------------------------
(* State *)

VARIABLES
    conn,       \* the committed database: cids, refs, blocks, aliases, temp_aliases
    handles,    \* ids of the TempAlias handles that are alive
    hung,       \* TRUE once a query that never returns has been started
    last,       \* the last call: [op, ok, arg, ret]
    swept,      \* history: a gc whose loop reached the end of its list of ids
                \* has committed, and only delete_orphaned has written since
    supplied,   \* history: the <<cid, data>> of every add_block that returned Ok
    calls       \* history: the number of calls made

vars == <<conn, handles, hung, last, swept, supplied, calls>>

\* the tables right after init_db on a fresh database
EmptyDb ==
    [cids |-> {}, refs |-> {}, blocks |-> EmptyBag, aliases |-> {}, temp_aliases |-> {}]

Call(op, ok, arg, ret) == [op |-> op, ok |-> ok, arg |-> arg, ret |-> ret]

Init ==
    /\ conn = EmptyDb
    /\ handles = {}
    /\ hung = FALSE
    /\ last = Call("memory", TRUE, NULL, NULL)
    /\ swept = FALSE
    /\ supplied = {}
    /\ calls = 0

----------------------------------------------------------------------------
(* The functions of db.rs over a transaction *)

\* Option<T>: None is the empty set, Some(x) the set of x
None == {}
Some(x) == {x}

Ids(txn) == {r.id : r \in txn.cids}

\* SELECT id FROM cids WHERE cid=?
get_id(txn, cid) ==
    IF \E r \in txn.cids : r.cid = cid
    THEN (CHOOSE r \in txn.cids : r.cid = cid).id
    ELSE NULL

\* the cid of a row of cids
CidOf(txn, id) == (CHOOSE r \in txn.cids : r.id = id).cid

\* id INTEGER PRIMARY KEY without AUTOINCREMENT: the rowid of an INSERT that
\* names no id is the largest rowid of the table plus one
NewRowid(txn) == Max(Ids(txn)) + 1

get_or_create_id(txn, cid) ==
    LET id == get_id(txn, cid) IN
    IF id # NULL
    THEN [txn |-> txn, id |-> id]
    ELSE [txn |-> [txn EXCEPT !.cids = @ \cup {[id |-> NewRowid(txn), cid |-> cid]}],
          id  |-> NewRowid(txn)]

\* the rows of blocks with a block_id
BlockRows(txn, id) == {b \in BagToSet(txn.blocks) : b.block_id = id}

get_block_count(txn) == BagCardinality(txn.blocks)

\* for link in links { get_or_create_id; INSERT INTO refs (parent_id, child_id) }
\* refs is UNIQUE(parent_id, child_id) and the INSERT has no OR IGNORE: a pair
\* that is already there fails the statement, and `?` returns the error
RECURSIVE insert_refs(_, _, _)
insert_refs(txn, id, links) ==
    IF links = <<>>
    THEN [ok |-> TRUE, txn |-> txn]
    ELSE LET g   == get_or_create_id(txn, Head(links))
             row == [parent_id |-> id, child_id |-> g.id]
         IN  IF row \in g.txn.refs
             THEN [ok |-> FALSE, txn |-> g.txn]
             ELSE insert_refs([g.txn EXCEPT !.refs = @ \cup {row}], id, Tail(links))

\* INSERT OR IGNORE INTO temp_aliases (alias, block_id), when alias is Some
insert_temp_alias(txn, pin, id) ==
    IF pin # NULL
    THEN [txn EXCEPT !.temp_aliases = @ \cup {[alias |-> pin, block_id |-> id]}]
    ELSE txn

\* INSERT INTO blocks (block_id, block): blocks has no key, the row is added
insert_block(txn, id, data) ==
    [txn EXCEPT !.blocks = @ (+) SetToBag({[block_id |-> id, block |-> data]})]

\* add_block as it would be without the test of block_exists
add_block_without_exists_check(txn, key, data, links, pin) ==
    LET g  == get_or_create_id(txn, key)
        t1 == insert_temp_alias(g.txn, pin, g.id)
    IN  insert_refs(insert_block(t1, g.id, data), g.id, links)

\* add_block as it would be with the temp alias inserted only for a new block
add_block_pins_new_blocks_only(txn, key, data, links, pin) ==
    LET g            == get_or_create_id(txn, key)
        id           == g.id
        block_exists == BlockRows(g.txn, id) # {}
    IN  IF ~block_exists
        THEN insert_refs(insert_block(insert_temp_alias(g.txn, pin, id), id, data), id, links)
        ELSE [ok |-> TRUE, txn |-> g.txn]

\* add_block as it would be if block_exists asked whether the cid had a row
\* before the call, not whether the id has a payload
add_block_exists_check_on_cids(txn, key, data, links, pin) ==
    LET g            == get_or_create_id(txn, key)
        id           == g.id
        block_exists == get_id(txn, key) # NULL
        t1           == insert_temp_alias(g.txn, pin, id)
    IN  IF ~block_exists
        THEN insert_refs(insert_block(t1, id, data), id, links)
        ELSE [ok |-> TRUE, txn |-> t1]

add_block(txn, key, data, links, pin) ==
    LET g            == get_or_create_id(txn, key)
        id           == g.id
        block_exists == BlockRows(g.txn, id) # {}
        t1           == insert_temp_alias(g.txn, pin, id)
    IN  IF ~block_exists
        THEN insert_refs(insert_block(t1, id, data), id, links)
        ELSE [ok |-> TRUE, txn |-> t1]

\* the loop of BlockStore::add_blocks: `?` leaves at the first block that
\* fails; `done` counts the blocks added before it
RECURSIVE add_blocks(_, _, _)
add_blocks(txn, blocks, done) ==
    IF blocks = <<>>
    THEN [ok |-> TRUE, txn |-> txn, done |-> done]
    ELSE LET b == Head(blocks)
             r == add_block(txn, b.cid, b.data, b.links, NULL)
         IN  IF r.ok THEN add_blocks(r.txn, Tail(blocks), done + 1)
             ELSE [ok |-> FALSE, txn |-> r.txn, done |-> done]

\* alias as it would be with INSERT OR IGNORE in place of REPLACE: a name that
\* has a row keeps it
alias_insert_or_ignore(txn, name, key) ==
    IF key # None
    THEN LET g == get_or_create_id(txn, CHOOSE c \in key : TRUE) IN
         [ok  |-> TRUE,
          txn |-> IF \E r \in g.txn.aliases : r.name = name THEN g.txn
                  ELSE [g.txn EXCEPT !.aliases = @ \cup {[name |-> name, block_id |-> g.id]}]]
    ELSE [ok |-> TRUE, txn |-> [txn EXCEPT !.aliases = {r \in @ : r.name # name}]]

\* the closure of BlockStore::alias; key is an Option<&C>
alias(txn, name, key) ==
    IF key # None
    THEN LET g == get_or_create_id(txn, CHOOSE c \in key : TRUE) IN
         \* REPLACE INTO aliases: name is UNIQUE, the old row of the name goes
         [ok  |-> TRUE,
          txn |-> [g.txn EXCEPT !.aliases =
                      {r \in @ : r.name # name} \cup {[name |-> name, block_id |-> g.id]}]]
    ELSE [ok |-> TRUE, txn |-> [txn EXCEPT !.aliases = {r \in @ : r.name # name}]]

\* delete_cids as it would be if refs.child_id had no ON DELETE CASCADE
delete_cids_without_child_cascade(txn, ids) ==
    [txn EXCEPT
        !.cids         = {r \in @ : r.id \notin ids},
        !.refs         = {r \in @ : r.parent_id \notin ids},
        !.aliases      = {r \in @ : r.block_id \notin ids},
        !.temp_aliases = {r \in @ : r.block_id \notin ids}]

\* DELETE FROM cids WHERE id = ?, for each id of a set, with the ON DELETE
\* CASCADE of refs (both columns), aliases and temp_aliases.  blocks declares
\* no foreign key (and "PRIMARY_KEY" is part of the column's type name, not a
\* constraint), so its rows stay.
delete_cids(txn, ids) ==
    [txn EXCEPT
        !.cids         = {r \in @ : r.id \notin ids},
        !.refs         = {r \in @ : r.parent_id \notin ids /\ r.child_id \notin ids},
        !.aliases      = {r \in @ : r.block_id \notin ids},
        !.temp_aliases = {r \in @ : r.block_id \notin ids}]

\* More rows than any walk of an acyclic refs over the rows of cids can
\* produce: a recursive query that has produced this many never stops.
WalkBound(txn) == Cardinality(txn.cids) * Pow2(Cardinality(txn.cids)) + 1

\* WITH RECURSIVE descendant_of(id) AS (<seed> UNION ALL
\*    SELECT DISTINCT child_id FROM refs JOIN descendant_of
\*    WHERE descendant_of.id = refs.parent_id)
\* sqlite keeps a queue of rows: it takes one row off the queue, adds it to
\* the result, and runs the recursive select with that row as the only row of
\* descendant_of, putting what it selects on the queue.  UNION ALL keeps
\* every row, seen before or not.  `fuel` is the number of rows the model
\* still follows before it concludes that the query does not return.
RECURSIVE descendant_of(_, _, _, _)
descendant_of(refs, queue, rows, fuel) ==
    IF queue = <<>>
    THEN [diverges |-> FALSE, rows |-> rows]
    ELSE IF fuel = 0
    THEN [diverges |-> TRUE, rows |-> rows]
    ELSE LET id       == Head(queue)
             children == {r.child_id : r \in {x \in refs : x.parent_id = id}}
         IN  descendant_of(refs, Tail(queue) \o SetToSeq(children),
                           Append(rows, id), fuel - 1)

Range(seq) == {seq[i] : i \in DOMAIN seq}

\* gc_seed as it would be with the temp aliases left out of the seed
gc_seed_without_temp_aliases(txn) == {r.block_id : r \in txn.aliases}

\* gc_seed as it would be without WHERE block_id IS NOT NULL
gc_seed_with_null_temp_aliases(txn) ==
    {r.block_id : r \in txn.aliases} \cup {r.block_id : r \in txn.temp_aliases}

\* the seed of the id query of incremental_gc:
\* SELECT block_id FROM aliases UNION
\* SELECT block_id FROM temp_aliases WHERE block_id IS NOT NULL
gc_seed(txn) ==
    {r.block_id : r \in txn.aliases}
        \cup {r.block_id : r \in {x \in txn.temp_aliases : x.block_id # NULL}}

\* gc_id_query as the comment above it words it ("all ids that have neither a
\* parent nor are aliased"), without the recursion
gc_id_query_without_recursion(txn) ==
    [diverges |-> FALSE,
     ids      |-> {id \in Ids(txn) : /\ id \notin gc_seed(txn)
                                      /\ \A r \in txn.refs : r.child_id # id}]

\* SELECT id FROM cids WHERE id NOT IN (SELECT id FROM descendant_of);
\* NOT IN over a set that holds a NULL is never true
gc_id_query(txn) ==
    LET d == descendant_of(txn.refs, SetToSeq(gc_seed(txn)), <<>>, WalkBound(txn)) IN
    [diverges |-> d.diverges,
     ids      |-> IF NULL \in Range(d.rows) THEN {}
                  ELSE {id \in Ids(txn) : id \notin Range(d.rows)}]

\* for (i, id) in ids.iter().enumerate() {
\*     if i > min_blocks && t0.elapsed() > max_duration { break; } delete }
\* The numbers of deletions the loop can stop after: the clock is only read
\* once i > min_blocks, and the loop ends with the list.
gc_stops(ids, min_blocks) ==
    {k \in 0..Cardinality(ids) : k >= Min2(Cardinality(ids), min_blocks + 1)}

\* incremental_gc when the loop deleted the ids `deleted` of the query's result
incremental_gc(txn, deleted) == [ok |-> TRUE, txn |-> delete_cids(txn, deleted)]

\* SELECT block_id FROM blocks WHERE block_id NOT IN (SELECT id FROM cids)
orphaned(txn) == {b \in BagToSet(txn.blocks) : b.block_id \notin Ids(txn)}

\* the rows of blocks of a set of distinct rows, with their copies
RowsBag(txn, rows) == [b \in rows |-> CopiesIn(b, txn.blocks)]

count_orphaned(txn) == BagCardinality(RowsBag(txn, orphaned(txn)))

\* DELETE FROM blocks WHERE block_id NOT IN (SELECT id FROM cids) LIMIT n:
\* without ORDER BY the rows the limit keeps are any of the orphaned rows.
\* `victims` is the bag of rows the statement deletes.
delete_orphaned_choices(txn) ==
    {v \in SubBag(RowsBag(txn, orphaned(txn))) :
        BagCardinality(v) = Min2(DELETE_LIMIT, count_orphaned(txn))}

delete_orphaned(txn, victims) ==
    [ok |-> TRUE, txn |-> [txn EXCEPT !.blocks = @ (-) victims]]

\* SELECT COALESCE(MAX(alias), 1) + 1 FROM temp_aliases
new_temp_alias_id(db) ==
    (IF db.temp_aliases = {} THEN 1 ELSE Max({r.alias : r \in db.temp_aliases})) + 1

\* create_temp_alias: INSERT INTO temp_aliases (alias, block_id) VALUES (?, NULL)
create_temp_alias(db) ==
    [db EXCEPT !.temp_aliases =
        @ \cup {[alias |-> new_temp_alias_id(db), block_id |-> NULL]}]

\* the tables a statement can name
TABLES == {"cids", "refs", "blocks", "aliases", "temp_aliases"}

\* drop_temp_alias: "DELETE FROM temp_alias WHERE alias = ?".  prepare_cached
\* fails when the table the statement names does not exist, and `?` returns
\* the error before anything is executed.
drop_temp_alias(db, alias_id) ==
    LET table == "temp_alias" IN
    IF table \in TABLES
    THEN [ok |-> TRUE, db |-> [db EXCEPT ![table] = {r \in @ : r.alias # alias_id}]]
    ELSE [ok |-> FALSE, db |-> db]

\* get_block: query_row gives the first row of the statement's result
get_block(txn, cid) ==
    LET id == get_id(txn, cid) IN
    IF id # NULL /\ BlockRows(txn, id) # {}
    THEN Some((CHOOSE b \in BlockRows(txn, id) : TRUE).block)
    ELSE None

\* SELECT 1 FROM blocks, cids WHERE blocks.block_id = cids.id AND cids.cid = ?
has_block(txn, cid) ==
    \E b \in BagToSet(txn.blocks) : \E r \in txn.cids : b.block_id = r.id /\ r.cid = cid

\* SELECT 1 FROM cids WHERE cids.cid = ?
has_cid(txn, cid) == \E r \in txn.cids : r.cid = cid

\* SELECT cid FROM cids
get_cids(txn) == {r.cid : r \in txn.cids}

\* SELECT COALESCE(SUM(LENGTH(block)), 0) FROM blocks
RECURSIVE get_block_size_of(_)
get_block_size_of(bag) ==
    IF bag = EmptyBag THEN 0
    ELSE LET b == CHOOSE x \in BagToSet(bag) : TRUE IN
         Len(b.block) + get_block_size_of(bag (-) SetToBag({b}))

get_block_size(txn) == get_block_size_of(txn.blocks)

\* SELECT cid from cids, <ids> WHERE cids.id = <ids>.id, for a list of ids
RECURSIVE cids_of(_, _)
cids_of(txn, ids) ==
    IF ids = <<>> THEN <<>>
    ELSE (IF Head(ids) \in Ids(txn) THEN <<CidOf(txn, Head(ids))>> ELSE <<>>)
            \o cids_of(txn, Tail(ids))

\* get_descendants: the seed is SELECT id FROM cids WHERE cid = ?, the ids of
\* the result are SELECT DISTINCT id FROM descendant_of
get_descendants(txn, cid) ==
    LET seed == IF get_id(txn, cid) # NULL THEN <<get_id(txn, cid)>> ELSE <<>>
        d    == descendant_of(txn.refs, seed, <<>>, WalkBound(txn))
    IN  [diverges |-> d.diverges, txn |-> txn,
         ret |-> cids_of(txn, SetToSeq(Range(d.rows)))]

\* get_missing_blocks: the seed is the id get_or_create_id gave; orphaned_ids
\* is SELECT DISTINCT id FROM descendant_of LEFT JOIN blocks ... WHERE
\* blocks.block_id IS NULL
get_missing_blocks(txn, cid) ==
    LET g            == get_or_create_id(txn, cid)
        d            == descendant_of(g.txn.refs, <<g.id>>, <<>>, WalkBound(g.txn))
        orphaned_ids == {id \in Range(d.rows) : BlockRows(g.txn, id) = {}}
    IN  [diverges |-> d.diverges, txn |-> g.txn,
         ret |-> cids_of(g.txn, SetToSeq(orphaned_ids))]

\* in_txn as it would be if it committed whatever the closure returned
in_txn_always_commits(db, result) == result.txn

\* BlockStore::in_txn: commit when the closure returned Ok; otherwise the
\* transaction is dropped, which rolls it back
in_txn(db, result) == IF result.ok THEN result.txn ELSE db

\* BlockStore::in_ro_txn: the transaction is dropped without a commit, so
\* whatever the closure wrote is rolled back
in_ro_txn(db, result) == db

----------------------------------------------------------------------------
(* The calls *)

\* the model follows a call only while the rowids it allocates stay in bounds
InBounds(txn) == Max(Ids(txn)) <= MaxId

AddBlock(b) ==
    /\ ~hung
    /\ LET r == add_block(conn, b.cid, b.data, b.links, NULL) IN
        /\ InBounds(r.txn)
        /\ conn' = in_txn(conn, r)
        /\ supplied' = IF r.ok THEN supplied \cup {<<b.cid, b.data>>} ELSE supplied
        /\ last' = Call("add_block", r.ok, b.cid, NULL)
    /\ swept' = FALSE
    /\ UNCHANGED <<handles, hung>>

\* add_block with alias = Some(handle), in a transaction of its own
AddBlockPinned(h, b) ==
    /\ ~hung
    /\ h \in handles
    /\ LET r == add_block(conn, b.cid, b.data, b.links, h) IN
        /\ InBounds(r.txn)
        /\ conn' = in_txn(conn, r)
        /\ supplied' = IF r.ok THEN supplied \cup {<<b.cid, b.data>>} ELSE supplied
        /\ last' = Call("add_block_pinned", r.ok, b.cid, h)
    /\ swept' = FALSE
    /\ UNCHANGED <<handles, hung>>

AddBlocks(blocks) ==
    /\ ~hung
    /\ LET r == add_blocks(conn, blocks, 0) IN
        /\ InBounds(r.txn)
        /\ conn' = in_txn(conn, r)
        /\ supplied' = IF r.ok
                       THEN supplied \cup {<<blocks[i].cid, blocks[i].data>> : i \in DOMAIN blocks}
                       ELSE supplied
        /\ last' = Call("add_blocks", r.ok, Len(blocks), r.done)
    /\ swept' = FALSE
    /\ UNCHANGED <<handles, hung>>

Alias(name, key) ==
    /\ ~hung
    /\ LET r == alias(conn, name, key) IN
        /\ InBounds(r.txn)
        /\ conn' = in_txn(conn, r)
        /\ last' = Call("alias", r.ok, name, key)
    /\ swept' = FALSE
    /\ UNCHANGED <<handles, hung, supplied>>

\* a query that does not return: the call never ends, and the connection is
\* never used again
Hang(op) ==
    /\ hung' = TRUE
    /\ last' = Call(op, FALSE, NULL, NULL)
    /\ UNCHANGED <<conn, handles, swept, supplied>>

\* in_txn(incremental_gc(min_blocks, max_duration)).  The clock decides after
\* how many deletions the loop stops; the query has no ORDER BY, so the ids
\* deleted by then are any `k` of the list.
Gc(min_blocks) ==
    /\ ~hung
    /\ LET q == gc_id_query(conn) IN
        IF q.diverges
        THEN Hang("gc")
        ELSE \E k \in gc_stops(q.ids, min_blocks) :
             \E deleted \in {d \in SUBSET q.ids : Cardinality(d) = k} :
                /\ conn' = in_txn(conn, incremental_gc(conn, deleted))
                /\ last' = Call("gc", TRUE, min_blocks, [ids |-> q.ids, deleted |-> deleted])
                /\ swept' = (deleted = q.ids)
                /\ UNCHANGED <<handles, hung, supplied>>

DeleteOrphaned ==
    /\ ~hung
    /\ \E victims \in delete_orphaned_choices(conn) :
        /\ conn' = in_txn(conn, delete_orphaned(conn, victims))
        /\ last' = Call("delete_orphaned", TRUE, count_orphaned(conn), BagCardinality(victims))
    /\ UNCHANGED <<handles, hung, swept, supplied>>

CreateTempAlias ==
    /\ ~hung
    /\ new_temp_alias_id(conn) <= MaxTempAlias
    /\ conn' = create_temp_alias(conn)
    /\ handles' = handles \cup {new_temp_alias_id(conn)}
    /\ last' = Call("create_temp_alias", TRUE, NULL, new_temp_alias_id(conn))
    /\ swept' = FALSE
    /\ UNCHANGED <<hung, supplied>>

\* Drop for TempAlias: the error of drop_temp_alias is logged, the handle is gone
DropTempAlias(h) ==
    /\ ~hung
    /\ h \in handles
    /\ LET r == drop_temp_alias(conn, h) IN
        /\ conn' = r.db
        /\ last' = Call("drop", r.ok, h, NULL)
    /\ handles' = handles \ {h}
    /\ swept' = FALSE
    /\ UNCHANGED <<hung, supplied>>

\* a read of the facade: a closure over a read-only transaction
Read(op, arg, r) ==
    /\ conn' = in_ro_txn(conn, r)
    /\ last' = Call(op, TRUE, arg, r.ret)
    /\ UNCHANGED <<handles, hung, swept, supplied>>

\* the result of a closure that reads and writes nothing
Ret(txn, value) == [txn |-> txn, ret |-> value]

GetBlock(cid) == ~hung /\ Read("get_block", cid, Ret(conn, get_block(conn, cid)))
HasBlock(cid) == ~hung /\ Read("has_block", cid, Ret(conn, has_block(conn, cid)))
HasCid(cid) == ~hung /\ Read("has_cid", cid, Ret(conn, has_cid(conn, cid)))
GetCids == ~hung /\ Read("get_cids", NULL, Ret(conn, get_cids(conn)))
GetBlockCount == ~hung /\ Read("get_block_count", NULL, Ret(conn, get_block_count(conn)))
GetBlockSize == ~hung /\ Read("get_block_size", NULL, Ret(conn, get_block_size(conn)))
CountOrphaned == ~hung /\ Read("count_orphaned", NULL, Ret(conn, count_orphaned(conn)))

GetDescendants(cid) ==
    /\ ~hung
    /\ LET r == get_descendants(conn, cid) IN
        IF r.diverges THEN Hang("get_descendants")
        ELSE Read("get_descendants", cid, r)

GetMissingBlocks(cid) ==
    /\ ~hung
    /\ LET r == get_missing_blocks(conn, cid) IN
        IF r.diverges THEN Hang("get_missing_blocks")
        ELSE Read("get_missing_blocks", cid, r)

\* the calls of the facade that go through in_ro_txn alone
READS ==
    {"get_block", "has_block", "has_cid", "get_descendants", "get_cids",
     "get_block_count", "get_block_size", "count_orphaned"}

\* The model follows a history for MaxCalls calls, and up to its first call
\* through in_ro_txn: such a call leaves every table, the handles and the
\* history as they were, so the calls that can follow it, and the states they
\* lead to, are those of the state it was made in.
Count ==
    /\ calls < MaxCalls
    /\ last.op \notin READS \cup {"get_missing_blocks"}
    /\ calls' = calls + 1

Next ==
    \/ Count /\ \E b \in BLOCKS : AddBlock(b)
    \/ Count /\ \E h \in handles, b \in BLOCKS : AddBlockPinned(h, b)
    \/ Count /\ \E blocks \in BATCHES : AddBlocks(blocks)
    \/ Count /\ \E name \in NAMES, key \in {None} \cup {Some(c) : c \in CIDS} :
                   Alias(name, key)
    \/ Count /\ \E min_blocks \in 0..MaxMinBlocks : Gc(min_blocks)
    \/ Count /\ DeleteOrphaned
    \/ Count /\ CreateTempAlias
    \/ Count /\ \E h \in handles : DropTempAlias(h)
    \/ Count /\ \E cid \in CIDS : GetBlock(cid)
    \/ Count /\ \E cid \in CIDS : HasBlock(cid)
    \/ Count /\ \E cid \in CIDS : HasCid(cid)
    \/ Count /\ \E cid \in CIDS : GetDescendants(cid)
    \/ Count /\ \E cid \in CIDS : GetMissingBlocks(cid)
    \/ Count /\ GetCids
    \/ Count /\ GetBlockCount
    \/ Count /\ GetBlockSize
    \/ Count /\ CountOrphaned

Spec == Init /\ [][Next]_vars

----------------------------------------------------------------------------
(* What the claims speak of *)

\* the targets of the named aliases and of the non-null temp aliases
Roots(db) ==
    {r.block_id : r \in db.aliases}
        \cup {r.block_id : r \in {x \in db.temp_aliases : x.block_id # NULL}}

\* the least set that holds S and the child of every refs row whose parent it holds
RECURSIVE Closure(_, _)
Closure(refs, S) ==
    LET next == S \cup {r.child_id : r \in {x \in refs : x.parent_id \in S}} IN
    IF next = S THEN S ELSE Closure(refs, next)

Protected(db) == Closure(db.refs, Roots(db))
Unreachable(db) == Ids(db) \ Protected(db)

\* the rows of cids, blocks and refs (outbound) of an id are in `after` as in `before`
Kept(before, after, id) ==
    /\ {r \in before.cids : r.id = id} \subseteq after.cids
    /\ \A b \in BlockRows(before, id) : CopiesIn(b, after.blocks) = CopiesIn(b, before.blocks)
    /\ {r \in before.refs : r.parent_id = id} \subseteq after.refs

Returned(op) == last.op = op /\ last.ok /\ ~hung

\* C1: a gc, whether its loop reaches the end of the list or stops early,
\* deletes no cid row that is the target of a named alias or of a non-null
\* temp alias or is reachable from one through refs, and leaves the payloads
\* and the outbound refs of those rows in place.
C1_GcSafety ==
    [][(last'.op = "gc" /\ last'.ok) =>
          \A id \in Protected(conn) : id \in Ids(conn) /\ Kept(conn, conn', id)]_vars

\* a gc has deleted rows of cids and left a root with a child in place
C1_Witness ==
    /\ Returned("gc")
    /\ last.ret.deleted # {}
    /\ \E r \in conn.refs : r.parent_id \in Roots(conn) /\ r.child_id \notin Roots(conn)

C3_PayloadProvenance ==
    \A cid \in CIDS :
        /\ \A data \in get_block(conn, cid) : <<cid, data>> \in supplied
        /\ has_block(conn, cid) => \E data \in DATA : <<cid, data>> \in supplied

\* C4: add_block called again with the same cid, data and links right after
\* it returned Ok returns Ok and leaves every table as the first call left it.
C4_AddBlockIdempotent ==
    \A b \in BLOCKS :
        LET r1 == add_block(conn, b.cid, b.data, b.links, NULL)
            s1 == in_txn(conn, r1)
            r2 == add_block(s1, b.cid, b.data, b.links, NULL)
        IN  r1.ok => r2.ok /\ in_txn(s1, r2) = s1 /\ Cardinality(BlockRows(s1, get_id(s1, b.cid))) = 1

\* an add_block has returned Ok and left a payload and edges
C4_Witness ==
    /\ Returned("add_block")
    /\ has_block(conn, last.arg)
    /\ \E r \in conn.refs : r.parent_id = get_id(conn, last.arg)

\* C5: after every committed transaction every blocks.block_id is a cids.id.
C5_NoOrphanedPayload == count_orphaned(conn) = 0

\* C6: both ends of every refs row, and the block_id of every aliases row and
\* of every non-null temp_aliases row, are ids of cids.
C6_ReferentialIntegrity ==
    /\ \A r \in conn.refs : r.parent_id \in Ids(conn) /\ r.child_id \in Ids(conn)
    /\ \A r \in conn.aliases : r.block_id \in Ids(conn)
    /\ \A r \in conn.temp_aliases : r.block_id # NULL => r.block_id \in Ids(conn)

\* a gc has deleted rows of cids and edges and aliases are left
C6_Witness ==
    /\ Returned("gc")
    /\ last.ret.deleted # {}
    /\ conn.refs # {}
    /\ conn.aliases # {}

\* C7: when a TempAlias handle is dropped, every temp_aliases row with the
\* handle's id is deleted.
C7_DropDeletesRows ==
    last.op = "drop" => \A r \in conn.temp_aliases : r.alias # last.arg

\* C8: add_block with a handle commits the (handle.id, id) row together with
\* the cid row and the payload, also when the payload was there before; and
\* no call removes the pin of a handle that stays alive, nor the cid row, the
\* payload or the outbound refs of the pinned id or of an id reachable from it.
C8_InFlightProtection ==
    [][/\ (last'.op = "add_block_pinned" /\ last'.ok) =>
            LET id == get_id(conn', last'.arg) IN
            /\ id # NULL
            /\ [alias |-> last'.ret, block_id |-> id] \in conn'.temp_aliases
            /\ BlockRows(conn', id) # {}
       /\ \A row \in conn.temp_aliases :
            (row.block_id # NULL /\ row.alias \in handles /\ row.alias \in handles') =>
                /\ row \in conn'.temp_aliases
                /\ \A id \in Closure(conn.refs, {row.block_id}) : Kept(conn, conn', id)]_vars

\* a gc has deleted rows of cids while a live handle pinned a block with a child
C8_Witness ==
    /\ Returned("gc")
    /\ last.ret.deleted # {}
    /\ \E row \in conn.temp_aliases :
          /\ row.alias \in handles
          /\ row.block_id # NULL
          /\ \E r \in conn.refs : r.parent_id = row.block_id

\* C9: a call of add_block, add_blocks, alias, gc or delete_orphaned that
\* returns an error leaves the committed database as it was.
C9_AtomicOnError ==
    [][(/\ last'.op \in {"add_block", "add_blocks", "alias", "gc", "delete_orphaned"}
        /\ ~last'.ok
        /\ ~hung') => conn' = conn]_vars

\* an add_blocks has failed after it had added a block
C9_Witness ==
    /\ last.op = "add_blocks"
    /\ ~last.ok
    /\ ~hung
    /\ last.ret >= 1

\* what C10 says get_missing_blocks returns
MissingOf(db, cid) ==
    IF ~has_cid(db, cid) THEN {cid}
    ELSE {CidOf(db, id) : id \in {x \in Closure(db.refs, {get_id(db, cid)}) : BlockRows(db, x) = {}}}

\* C10: get_missing_blocks(cid), when it returns, returns without duplicates
\* the cids of the ids reachable from cid (cid included) that have no payload
\* row, and {cid} for a cid that has no cid row.
C10_MissingBlocks ==
    Returned("get_missing_blocks") =>
        /\ Range(last.ret) = MissingOf(conn, last.arg)
        /\ Len(last.ret) = Cardinality(Range(last.ret))

\* what C11 says get_descendants returns
DescendantsOf(db, cid) ==
    IF ~has_cid(db, cid) THEN {}
    ELSE {CidOf(db, id) : id \in Closure(db.refs, {get_id(db, cid)})}

\* C11: in every reachable state get_descendants(cid) returns: the empty
\* list when cid has no cid row, and otherwise, each cid once, the cids of
\* the ids reachable from cid through refs, cid included.
C11_Descendants ==
    last.op = "get_descendants" =>
        /\ ~hung
        /\ Range(last.ret) = DescendantsOf(conn, last.arg)
        /\ Len(last.ret) = Cardinality(Range(last.ret))

\* C12: get_block, has_block, has_cid, get_descendants, get_cids,
\* get_block_count, get_block_size and count_orphaned leave every table as it
\* was; get_missing_blocks(cid) for a cid without a cid row leaves a cid row
\* for it in the database the later calls see, and changes nothing else.
C12_ReadsAndInterning ==
    [][/\ (last'.op \in READS /\ last'.ok) => conn' = conn
       /\ (last'.op = "get_missing_blocks" /\ last'.ok /\ ~has_cid(conn, last'.arg)) =>
            /\ has_cid(conn', last'.arg)
            /\ conn' = [conn EXCEPT !.cids = @ \cup {r \in conn'.cids : r.cid = last'.arg}]]_vars

\* the rows of aliases of a name
AliasRows(db, name) == {r \in db.aliases : r.name = name}

\* C13: aliases holds at most one row per name.  alias(name, Some(cid))
\* leaves exactly the row (name, id of cid) for the name, creating the cid row
\* when there was none and nothing else; alias(name, None) leaves no row for
\* the name and changes nothing when there was none; neither touches the rows
\* of other names, and no other call changes aliases.  The target the name had
\* before is a root of gc afterwards only if a row of another name or a temp
\* alias targeted it, or it is the new target.
C13_AliasUpsert ==
    [][/\ \A n \in NAMES : Cardinality(AliasRows(conn', n)) <= 1
       /\ ~(last'.op = "alias" /\ last'.ok) => conn'.aliases = conn.aliases
       /\ (last'.op = "alias" /\ last'.ok) =>
            LET name == last'.arg
                key  == last'.ret
            IN  /\ conn'.aliases \ AliasRows(conn', name) = conn.aliases \ AliasRows(conn, name)
                /\ conn'.refs = conn.refs
                /\ conn'.blocks = conn.blocks
                /\ conn'.temp_aliases = conn.temp_aliases
                /\ \A c \in key :
                     /\ has_cid(conn', c)
                     /\ AliasRows(conn', name) = {[name |-> name, block_id |-> get_id(conn', c)]}
                     /\ conn.cids \subseteq conn'.cids
                     /\ \A r \in conn'.cids \ conn.cids : r.cid = c
                /\ key = None =>
                     /\ AliasRows(conn', name) = {}
                     /\ conn'.cids = conn.cids
                     /\ AliasRows(conn, name) = {} => conn' = conn
                /\ \A old \in AliasRows(conn, name) :
                     old.block_id \in gc_seed(conn') <=>
                        \/ \E r \in conn.aliases \ {old} : r.block_id = old.block_id
                        \/ \E r \in conn.temp_aliases : r.block_id = old.block_id
                        \/ \E c \in key : get_id(conn, c) = old.block_id]_vars

\* an alias has been set on a cid that has no payload, next to the alias of
\* another name
C13_Witness ==
    /\ Returned("alias")
    /\ \E c \in last.ret :
          /\ ~has_block(conn, c)
          /\ AliasRows(conn, last.arg) = {[name |-> last.arg, block_id |-> get_id(conn, c)]}
    /\ Cardinality(conn.aliases) = 2

\* the outbound rows of refs of an id
Outbound(db, id) == {r \in db.refs : r.parent_id = id}

\* the rows of refs a list of links stands for: one per distinct child
EdgesOf(db, id, links) ==
    {[parent_id |-> id, child_id |-> get_id(db, c)] : c \in Range(links)}

\* C14: add_block(cid, data, links) on a cid that has no payload returns Ok
\* for every list of links, also one that names a child more than once, and
\* leaves in refs exactly one row (cid, child) per distinct child of links.
C14_DuplicateEdgesIgnored ==
    [][\A b \in BLOCKS :
        LET r == add_block(conn, b.cid, b.data, b.links, NULL) IN
        (/\ last'.op = "add_block"
         /\ last'.arg = b.cid
         /\ last'.ok = r.ok
         /\ conn' = in_txn(conn, r)
         /\ ~has_block(conn, b.cid)) =>
            /\ last'.ok
            /\ get_id(conn', b.cid) # NULL
            /\ Outbound(conn', get_id(conn', b.cid))
                  = EdgesOf(conn', get_id(conn', b.cid), b.links)]_vars

\* `deleted` is a prefix of the ids of the gc query, which scans cids by rowid
IsPrefix(deleted, ids) == \A d \in deleted : \A i \in ids \ deleted : d < i

\* the step is a gc whose loop deleted something else than a prefix of its list
GcOutOfOrder ==
    /\ last'.op = "gc"
    /\ last'.ok
    /\ ~IsPrefix(last'.ret.deleted, last'.ret.ids)

\* C15: the outbound refs rows of a cid row with a payload are the links of
\* the add_block that inserted the payload: an add_block that inserts a
\* payload leaves exactly one refs row per distinct link, and no later call,
\* a gc that stopped after a prefix of its list included, changes the outbound
\* rows of a cid row that keeps its payload.
C15_EdgeFidelity ==
    [][~GcOutOfOrder =>
        /\ \A b \in BLOCKS :
            LET r == add_block(conn, b.cid, b.data, b.links, NULL) IN
            (/\ last'.op = "add_block"
             /\ last'.arg = b.cid
             /\ last'.ok
             /\ r.ok
             /\ conn' = in_txn(conn, r)
             /\ conn'.blocks # conn.blocks) =>
                Outbound(conn', get_id(conn', b.cid))
                    = EdgesOf(conn', get_id(conn', b.cid), b.links)
        /\ \A row \in conn.cids :
            (row \in conn'.cids /\ BlockRows(conn, row.id) # {} /\ BlockRows(conn', row.id) # {}) =>
                Outbound(conn', row.id) = Outbound(conn, row.id)]_vars

\* C16: a gc(min_blocks, max_duration) called with U unreachable cid rows
\* returns having deleted at least min(U, min_blocks + 1) of them, and only
\* unreachable ones, whatever the time elapsed; so repeated calls reach a
\* state without an unreachable cid row.
C16_GcProgress ==
    [][(last'.op = "gc" /\ Unreachable(conn) # {}) =>
        /\ last'.ok
        /\ Ids(conn) \ Ids(conn') \subseteq Unreachable(conn)
        /\ Cardinality(Ids(conn) \ Ids(conn'))
              >= Min2(Cardinality(Unreachable(conn)), last'.arg + 1)]_vars

\* C17: in every state the calls can produce, the recursive queries of gc, of
\* get_descendants and of get_missing_blocks come to an end, also when the
\* links the callers supplied make refs cyclic.
C17_ClosureTerminates ==
    /\ ~gc_id_query(conn).diverges
    /\ \A cid \in CIDS :
        /\ ~get_descendants(conn, cid).diverges
        /\ ~get_missing_blocks(conn, cid).diverges

\* C18: create_temp_alias returns an id that is at least 2, greater than
\* every alias of temp_aliases and the id of no live handle, and commits the
\* row (id, NULL) and nothing else; the rows with a NULL block_id are no roots
\* of gc and do not keep it from deleting: the list of a gc is the set of the
\* ids that no alias and no non-null temp alias reaches.
C18_TempAliasFresh ==
    [][/\ (last'.op = "create_temp_alias" /\ last'.ok) =>
            /\ last'.ret >= 2
            /\ \A r \in conn.temp_aliases : r.alias < last'.ret
            /\ last'.ret \notin handles
            /\ handles' = handles \cup {last'.ret}
            /\ conn' = [conn EXCEPT !.temp_aliases =
                            @ \cup {[alias |-> last'.ret, block_id |-> NULL]}]
       /\ (last'.op = "gc" /\ last'.ok) =>
            /\ last'.ret.ids = Unreachable(conn)
            /\ \A id \in last'.ret.deleted : id \notin Ids(conn')
            /\ {r \in conn.temp_aliases : r.block_id = NULL} \subseteq conn'.temp_aliases]_vars

\* two handles are alive, one holds only its placeholder row, and a gc has
\* deleted rows of cids
C18_Witness ==
    /\ Returned("gc")
    /\ last.ret.deleted # {}
    /\ Cardinality(handles) >= 2
    /\ \E h \in handles : \A r \in conn.temp_aliases : r.alias = h => r.block_id = NULL

\* C19: blocks holds at most one row per block_id, so get_block_count() is
\* the number of distinct ids that have a payload.
C19_SinglePayload ==
    /\ \A b \in BagToSet(conn.blocks) : CopiesIn(b, conn.blocks) = 1
    /\ \A b1, b2 \in BagToSet(conn.blocks) : b1.block_id = b2.block_id => b1 = b2
    /\ get_block_count(conn) = Cardinality({b.block_id : b \in BagToSet(conn.blocks)})

\* an add_block has returned Ok for a cid whose new row took the id of a
\* deleted row that had left its payload behind
C19_Witness ==
    /\ Returned("add_block")
    /\ \E data \in get_block(conn, last.arg) : <<last.arg, data>> \notin supplied

====
